---- MODULE Spec2Model ----
(***************************************************************************)
(* Spacetime-Memory-Lattice: coordinate algebra (coordinate.py), the       *)
(* DefaultPath walker and the store/restore protocol (navigation_hub.py)   *)
(* and the sharded block store (data_manager.py).                          *)
(*                                                                         *)
(* The source works in radix 60 with a 32-bit imaginary register.  TLC's   *)
(* integers are 32-bit, so the radix and the register width are scaled:    *)
(* Base stands for the source's 60 and ImagBits for its 32.  Six digits,   *)
(* the coordinate-constant weights and every formula keep the source's     *)
(* shape; SPACE_SIZE is Base^6 and M is 2^ImagBits.                        *)
(***************************************************************************)
EXTENDS Integers, Sequences, FiniteSets, TLC

VARIABLES cc, hashTab, walkers, hubCoord, files, lastCall, pc, nav, job, out, imported,
          attfiles, indexFile, browser

vars == <<cc, hashTab, walkers, hubCoord, files, lastCall, pc, nav, job, out, imported,
          attfiles, indexFile, browser>>

(***************************************************************************)
(* Bounds of the model                                                     *)
(***************************************************************************)
\* radix of a coordinate digit (60 in coordinate.py)
Base == 3

\* width in bits of the imaginary register (32 in navigation_hub.py)
ImagBits == 3

\* how far outside [0, SPACE_SIZE) the numeric inputs of coord_conv reach
NumSlack == 4

(***************************************************************************)
(* Program constants                                                       *)
(***************************************************************************)
NDigits == 6

SPACE_SIZE == Base ^ NDigits

M == 2 ^ ImagBits

None == "None"

(***************************************************************************)
(* Text: a Python str is a sequence of one-character strings               *)
(***************************************************************************)
DigitChars == <<"0", "1", "2", "3", "4", "5", "6", "7", "8", "9">>

Whitespace == {" ", "\t"}

IsDigitChar(ch) == \E i \in 1..10 : DigitChars[i] = ch

DigitVal(ch) == (CHOOSE i \in 1..10 : DigitChars[i] = ch) - 1

RECURSIVE str(_)
\* Python str(int) for a non-negative int
str(n) == IF n < 10 THEN <<DigitChars[n + 1]>>
          ELSE str(n \div 10) \o <<DigitChars[(n % 10) + 1]>>

RECURSIVE int(_)
\* Python int(p) for a string of decimal digits
int(p) == IF p = <<>> THEN 0
          ELSE 10 * int(SubSeq(p, 1, Len(p) - 1)) + DigitVal(p[Len(p)])

\* Python p.isdigit()
isdigit(p) == p # <<>> /\ \A i \in 1..Len(p) : IsDigitChar(p[i])

RECURSIVE SplitFrom(_, _, _)
SplitFrom(s, cur, acc) ==
    IF s = <<>> THEN (IF cur = <<>> THEN acc ELSE Append(acc, cur))
    ELSE IF Head(s) \in Whitespace
         THEN SplitFrom(Tail(s), <<>>, IF cur = <<>> THEN acc ELSE Append(acc, cur))
         ELSE SplitFrom(Tail(s), Append(cur, Head(s)), acc)

\* Python s.split(): split on runs of whitespace, no empty parts
split(s) == SplitFrom(s, <<>>, <<>>)

RECURSIVE join(_, _)
\* Python sep.join(parts)
join(sep, parts) ==
    IF parts = <<>> THEN <<>>
    ELSE IF Len(parts) = 1 THEN parts[1]
    ELSE parts[1] \o sep \o join(sep, Tail(parts))

(***************************************************************************)
(* coordinate.py                                                           *)
(***************************************************************************)
\* parse_coordinate raises ValueError exactly when this is FALSE
parse_ok(coord_str) ==
    /\ \E i \in 1..Len(coord_str) : coord_str[i] = " "
    /\ LET parts == split(coord_str)
       IN  /\ Len(parts) = NDigits
           /\ \A i \in 1..Len(parts) : isdigit(parts[i]) /\ int(parts[i]) < Base

\* mutant: the parts are stored in reverse order
parse_coordinate_reversed(coord_str) ==
    LET parts == split(coord_str)
    IN  [i \in 1..Len(parts) |-> int(parts[Len(parts) + 1 - i])]

\* the list parse_coordinate returns when it does not raise
parse_coordinate(coord_str) ==
    LET parts == split(coord_str)
    IN  [i \in 1..Len(parts) |-> int(parts[i])]

\* mutant: every part zero-padded to two characters
get_coordinates_padded(coordinates) ==
    join(<<" ">>, [i \in 1..Len(coordinates) |->
        IF coordinates[i] < 10 THEN <<"0">> \o str(coordinates[i]) ELSE str(coordinates[i])])

get_coordinates(coordinates) ==
    join(<<" ">>, [i \in 1..Len(coordinates) |-> str(coordinates[i])])

RECURSIVE SumDigits(_, _)
SumDigits(digits, i) ==
    IF i > Len(digits) THEN 0
    ELSE digits[i] * (Base ^ (i - 1)) + SumDigits(digits, i + 1)

baseTenConv(digits) == SumDigits(digits, 1)

RECURSIVE DivLoop_wide(_)
\* mutant: the digit loop divides by the wrong radix
DivLoop_wide(number) ==
    IF number = 0 THEN <<>>
    ELSE <<number % (Base + 1)>> \o DivLoop_wide(number \div (Base + 1))

RECURSIVE DivLoop(_)
\* while number: digits.append(number % 60); number //= 60
DivLoop(number) ==
    IF number = 0 THEN <<>>
    ELSE <<number % Base>> \o DivLoop(number \div Base)

RECURSIVE PadLoop(_)
\* while len(digits) < 6: digits.append(0)
PadLoop(digits) ==
    IF Len(digits) < NDigits THEN PadLoop(Append(digits, 0)) ELSE digits

\* mutant: the padding loop is left out
coord_conv_nopad(number) == DivLoop(number % SPACE_SIZE)

coord_conv(number) == PadLoop(DivLoop(number % SPACE_SIZE))

strCoord_conv(number) ==
    LET digits == PadLoop(DivLoop(number % SPACE_SIZE))
    IN  join(<<" ">>, [i \in 1..Len(digits) |-> str(digits[i])])

RECURSIVE UpdateLoop_bottom(_, _, _, _)
\* mutant: the universe counter moves on the wrap of the bottom digit
UpdateLoop_bottom(coordinates, universes, delta, i) ==
    IF i > Len(coordinates) THEN [coordinates |-> coordinates, universes |-> universes]
    ELSE LET c == [coordinates EXCEPT ![i] = @ + delta]
         IN  IF delta > 0 /\ c[i] = Base
             THEN UpdateLoop_bottom([c EXCEPT ![i] = 0],
                                    IF i = 1 THEN universes + 1 ELSE universes,
                                    delta, i + 1)
             ELSE IF delta < 0 /\ c[i] = -1
             THEN UpdateLoop_bottom([c EXCEPT ![i] = Base - 1],
                                    IF i = 1 THEN universes - 1 ELSE universes,
                                    delta, i + 1)
             ELSE [coordinates |-> c, universes |-> universes]

RECURSIVE UpdateLoop(_, _, _, _)
\* the "for i in range(len(self.coordinates))" of _update_coordinates, from
\* position i (counted from 1) on
UpdateLoop(coordinates, universes, delta, i) ==
    IF i > Len(coordinates) THEN [coordinates |-> coordinates, universes |-> universes]
    ELSE LET c == [coordinates EXCEPT ![i] = @ + delta]
         IN  IF delta > 0 /\ c[i] = Base
             THEN UpdateLoop([c EXCEPT ![i] = 0],
                             IF i = Len(coordinates) THEN universes + 1 ELSE universes,
                             delta, i + 1)
             ELSE IF delta < 0 /\ c[i] = -1
             THEN UpdateLoop([c EXCEPT ![i] = Base - 1],
                             IF i = Len(coordinates) THEN universes - 1 ELSE universes,
                             delta, i + 1)
             ELSE [coordinates |-> c, universes |-> universes]

\* Coordinate._update_coordinates(delta) on the fields of a Coordinate
_update_coordinates(obj, delta) == UpdateLoop(obj.coordinates, obj.universes, delta, 1)

increment(obj) == _update_coordinates(obj, 1)

decrement(obj) == _update_coordinates(obj, -1)

(***************************************************************************)
(* navigation_hub.py: DefaultPath                                          *)
(***************************************************************************)
\* 0x9E3779B9 reduced modulo 2^16; (mix * A + 1) & mask only depends on
\* A modulo the mask width, which is at most 16 bits here
A == 31161

RECURSIVE BitXor(_, _)
\* Python a ^ b on non-negative ints
BitXor(a, b) ==
    IF a = 0 THEN b
    ELSE IF b = 0 THEN a
    ELSE (((a % 2) + (b % 2)) % 2) + 2 * BitXor(a \div 2, b \div 2)

\* v & 0xFFFFFFFF, the mask being M - 1
Mask(v) == v % M

\* values the reduced digests can take: blake2b is an opaque function, so a
\* digest is any value of the range, fixed once it has been computed
ImagSeeds == {1, M - 2}

XSeeds == {0, SPACE_SIZE - 2}

\* mutant: a digest that is not a function of its input (a salted hash)
HashUnstable(tab, inp, range) == range

\* the values hashlib.blake2b(inp) reduced to range can return, given the
\* digests tab already fixes
HashChoices(tab, inp, range) == IF inp \in DOMAIN tab THEN {tab[inp]} ELSE range

HashRecord(tab, inp, v) == IF inp \in DOMAIN tab THEN tab ELSE (inp :> v) @@ tab

\* the input strings of the two digests
ImagInput(coord_dec, key) == strCoord_conv(coord_dec) \o <<"|">> \o <<key>>

XInput(coord_dec, key) == str(coord_dec) \o <<"|">> \o <<key>>

\* DefaultPath.__init__ with the two digests reduced to imag0 and X0
DefaultPath(start_list, key, imag0, X0) ==
    [coord_dec |-> baseTenConv(start_list), key |-> key, imag |-> imag0, X |-> X0]

\* coord_const with the register reduced modulo m ("& 0xFFFFFFFF")
coord_const_m(c, m) ==
    (c[1] * 13 + c[2] * 17 + c[3] * 19 + c[4] * 23 + c[5] * 29 + c[6] * 31) % m

coord_const(c) == coord_const_m(c, M)

\* mutant: the imag that comes in is left out of the mix
imag_step_flat(prev, curr, imag, m) ==
    LET mix == BitXor(coord_const_m(prev, m), coord_const_m(curr, m))
    IN  (mix * A + 1) % m

\* imag_step with the register reduced modulo m
imag_step_m(prev, curr, imag, m) ==
    LET mix == BitXor(BitXor(imag, coord_const_m(prev, m)), coord_const_m(curr, m))
    IN  (mix * A + 1) % m

imag_step(prev, curr, imag) == imag_step_m(prev, curr, imag, M)

\* mutant: the imaginary square is added
real_step_plus(path, real, imag) == (real * real + imag * imag + path.X) % SPACE_SIZE

real_step(path, real, imag) == (real * real - imag * imag + path.X) % SPACE_SIZE

\* the walker after DefaultPath.step(), the register being reduced modulo m
step_m(path, m) ==
    LET prev == coord_conv(path.coord_dec)
        real == real_step(path, path.coord_dec, path.imag)
        curr == coord_conv(real)
    IN  [path EXCEPT !.coord_dec = real, !.imag = imag_step_m(prev, curr, path.imag, m)]

\* the walker after DefaultPath.step()
step(path) == step_m(path, M)

\* mutant: step() returns the coordinate it started from
step_ret_stale(path) == get_coordinates(coord_conv(path.coord_dec))

\* the string DefaultPath.step() returns
step_ret(path) ==
    get_coordinates(coord_conv(real_step(path, path.coord_dec, path.imag)))

(***************************************************************************)
(* navigation_hub.py: NavigationHub                                        *)
(***************************************************************************)
Zeros == [i \in 1..NDigits |-> 0]

\* mutant: the fallback list is not the all-zero coordinate
NavigationHub_top(start_coord_str) ==
    LET coord_list == IF parse_ok(start_coord_str)
                      THEN parse_coordinate(start_coord_str)
                      ELSE [i \in 1..NDigits |-> Base - 1]
    IN  [coordinates |-> coord_list, start_coord |-> coord_list,
         printed |-> IF parse_ok(start_coord_str) THEN <<>>
                     ELSE <<"Invalid input. Defaulting to all zeros.">>]

\* NavigationHub.__init__: an unparsable start falls back to all zeros
NavigationHub(start_coord_str) ==
    LET coord_list == IF parse_ok(start_coord_str)
                      THEN parse_coordinate(start_coord_str) ELSE Zeros
    IN  [coordinates |-> coord_list, start_coord |-> coord_list,
         printed |-> IF parse_ok(start_coord_str) THEN <<>>
                     ELSE <<"Invalid input. Defaulting to all zeros.">>]

\* NavigationHub.default(key) with start=None, the digests being imag0 and X0
default(hub, key, imag0, X0) ==
    LET sc == hub.start_coord
    IN  [coordinates |-> sc, start_coord |-> hub.start_coord, printed |-> hub.printed,
         active_path |-> DefaultPath(sc, key, imag0, X0)]

(***************************************************************************)
(* data_manager.py: DataManager                                            *)
(* files maps the path of each existing bucket file to its content:       *)
(* whether its bytes decode as UTF-8 (utf8), whether json.load accepts the *)
(* text (ok), and the dict of coordinate key -> list of block dicts.       *)
(***************************************************************************)
Max(S) == CHOOSE x \in S : \A y \in S : y <= x

\* _paths: (json_path, full_key); the file is named by parts c5..c1, so the
\* coordinates that differ only in their first part share one file
json_path(coordinate) ==
    LET parts == split(coordinate)
    IN  <<parts[6], parts[5], parts[4], parts[3], parts[2]>>

full_key(coordinate) == join(<<" ">>, split(coordinate))

\* _load_json raises (UnicodeDecodeError from reading the file opened with
\* encoding="utf-8"; only json.JSONDecodeError is caught)
load_raises(fs, path) == path \in DOMAIN fs /\ ~fs[path].utf8

\* _load_json when it does not raise: {} when the file is absent or its
\* text is not JSON
load_json(fs, path) ==
    IF path \in DOMAIN fs /\ fs[path].ok THEN fs[path].data ELSE <<>>

\* _write_json
write_json(fs, path, data) == [q \in DOMAIN fs \cup {path} |->
                                 IF q = path THEN [utf8 |-> TRUE, ok |-> TRUE, data |-> data] ELSE fs[q]]

\* BlockData.to_dict
to_dict(block) ==
    [block |-> block.block, universe |-> block.universe,
     attachments |-> block.attachments, layers |-> block.layers]

\* mutant: the bucket is left in arrival order
SortByUniverse_arrival(buckets) == buckets

RECURSIVE SortByUniverse(_)
\* list.sort(key=universe): stable
SortByUniverse(buckets) ==
    IF buckets = <<>> THEN <<>>
    ELSE LET last == buckets[Len(buckets)]
             front == SortByUniverse(SubSeq(buckets, 1, Len(buckets) - 1))
             n == Cardinality({i \in 1..Len(front) : front[i].universe <= last.universe})
         IN  SubSeq(front, 1, n) \o <<last>> \o SubSeq(front, n + 1, Len(front))

load_coordinate_data(fs, coordinate) ==
    LET data == load_json(fs, json_path(coordinate))
    IN  IF full_key(coordinate) \in DOMAIN data THEN data[full_key(coordinate)] ELSE <<>>

save_coordinate_data(fs, coordinate, blocks) ==
    LET data == load_json(fs, json_path(coordinate))
    IN  write_json(fs, json_path(coordinate),
                   [k \in DOMAIN data \cup {full_key(coordinate)} |->
                      IF k = full_key(coordinate) THEN blocks ELSE data[k]])

Universes(buckets) == {buckets[i].universe : i \in 1..Len(buckets)}

\* mutant: the incoming universe is kept even when the bucket already has it
assigned_universe_kept(fs, coordinate, block) == block.universe

\* block.universe after create_coordinate_block ("Prevent duplicate universes")
assigned_universe(fs, coordinate, block) ==
    LET existing == Universes(load_coordinate_data(fs, coordinate))
    IN  IF block.universe \in existing
        THEN (IF existing # {} THEN Max(existing) + 1 ELSE 0)
        ELSE block.universe

\* mutant: a block already present with the same universe and content is
\* not written again
create_coordinate_block_once(fs, coordinate, block) ==
    LET data == load_json(fs, json_path(coordinate))
        buckets == IF full_key(coordinate) \in DOMAIN data
                   THEN data[full_key(coordinate)] ELSE <<>>
        stored == [block EXCEPT !.universe = assigned_universe(fs, coordinate, block)]
        sorted == SortByUniverse(Append(buckets, to_dict(stored)))
    IN  IF \E i \in 1..Len(buckets) : buckets[i] = to_dict(block)
        THEN fs
        ELSE write_json(fs, json_path(coordinate),
                   [k \in DOMAIN data \cup {full_key(coordinate)} |->
                      IF k = full_key(coordinate) THEN sorted ELSE data[k]])

\* the files after create_coordinate_block(coordinate, block)
create_coordinate_block(fs, coordinate, block) ==
    LET data == load_json(fs, json_path(coordinate))
        buckets == IF full_key(coordinate) \in DOMAIN data
                   THEN data[full_key(coordinate)] ELSE <<>>
        stored == [block EXCEPT !.universe = assigned_universe(fs, coordinate, block)]
        sorted == SortByUniverse(Append(buckets, to_dict(stored)))
    IN  write_json(fs, json_path(coordinate),
                   [k \in DOMAIN data \cup {full_key(coordinate)} |->
                      IF k = full_key(coordinate) THEN sorted ELSE data[k]])

\* str.replace(old, new) for one-character old and new
replace(s, old, new) == [i \in 1..Len(s) |-> IF s[i] = old THEN new ELSE s[i]]

\* att_dir of create_coordinate_block: dir_path/attachments/sanitized_key
att_dir(coordinate) ==
    LET parts == split(coordinate)
    IN  [dir |-> <<parts[6], parts[5], parts[4], parts[3]>>,
         key |-> replace(full_key(coordinate), " ", "-")]

RECURSIVE CopyLoop(_, _, _, _, _)
\* "for fname in block.attachments": source is the set of file names that
\* exist in attachments_source_dir; the result is the attachment files on
\* disk and the names warned about, in order
CopyLoop(af, warned, source, dst_dir, names) ==
    IF names = <<>> THEN [attfiles |-> af, warned |-> warned]
    ELSE LET fname == Head(names)
             dst == [dir |-> dst_dir, fname |-> fname]
         IN  IF fname \in source /\ dst \notin af
             THEN CopyLoop(af \cup {dst}, warned, source, dst_dir, Tail(names))
             ELSE IF fname \notin source
             THEN CopyLoop(af, Append(warned, fname), source, dst_dir, Tail(names))
             ELSE CopyLoop(af, warned, source, dst_dir, Tail(names))

\* the "Attachments" part of create_coordinate_block; src_dir is <<>> for
\* attachments_source_dir = None and <<source>> for a directory holding the
\* files named in source
copy_attachments(af, src_dir, coordinate, block) ==
    IF src_dir # <<>> /\ block.attachments # <<>>
    THEN CopyLoop(af, <<>>, src_dir[1], att_dir(coordinate), block.attachments)
    ELSE [attfiles |-> af, warned |-> <<>>]

\* index of the first block of the list with that universe, 0 if none
FirstWithUniverse(blocks, universe) ==
    IF universe \in Universes(blocks)
    THEN CHOOSE i \in 1..Len(blocks) :
           /\ blocks[i].universe = universe
           /\ \A j \in 1..(i - 1) : blocks[j].universe # universe
    ELSE 0

\* mutant: the layers of the block are replaced by the new layer alone
add_layer_to_universe_reset(fs, coordinate, universe, layer_level, layer_data) ==
    LET data == load_coordinate_data(fs, coordinate)
        i == FirstWithUniverse(data, universe)
    IN  IF i = 0 THEN fs
        ELSE save_coordinate_data(fs, coordinate,
                 [data EXCEPT ![i].layers = (str(layer_level) :> layer_data)])

\* the files after add_layer_to_universe
add_layer_to_universe(fs, coordinate, universe, layer_level, layer_data) ==
    LET data == load_coordinate_data(fs, coordinate)
        i == FirstWithUniverse(data, universe)
    IN  IF i = 0 THEN fs
        ELSE save_coordinate_data(fs, coordinate,
                 [data EXCEPT ![i].layers = (str(layer_level) :> layer_data) @@ @])

get_layer_data_for_universe(fs, coordinate, universe, layer) ==
    LET data == load_coordinate_data(fs, coordinate)
        i == FirstWithUniverse(data, universe)
    IN  IF i # 0 /\ str(layer) \in DOMAIN data[i].layers
        THEN data[i].layers[str(layer)] ELSE None

(***************************************************************************)
(* Inputs of the coordinate functions                                      *)
(***************************************************************************)
NumInputs == (0 - SPACE_SIZE - NumSlack)..(2 * SPACE_SIZE + NumSlack)

PlainParts == {str(0), str(Base - 1)}

OddParts == {<<"0", "0">>, <<"0", "1">>, str(Base), <<"x">>, <<"-", "1">>, <<"1", "x">>}

Seps == {<<" ">>, <<" ", " ">>, <<"\t">>}

PartLists ==
    LET plain == [1..NDigits -> PlainParts]
    IN  plain
        \cup {[pl EXCEPT ![i] = o] : pl \in plain, i \in {1, 3, NDigits}, o \in OddParts}
        \cup {SubSeq(pl, 1, NDigits - 1) : pl \in plain}
        \cup {Append(pl, str(0)) : pl \in plain}

\* the first separator and the remaining separators are chosen independently
StrInputs ==
    {pl[1] \o s1 \o join(s2, Tail(pl)) : pl \in PartLists, s1 \in Seps, s2 \in Seps}
    \cup {<<" ">> \o join(<<" ">>, pl) : pl \in [1..NDigits -> PlainParts]}
    \cup {join(<<" ">>, pl) \o <<" ">> : pl \in [1..NDigits -> PlainParts]}
    \cup {<<>>, <<" ">>}

(***************************************************************************)
(* State                                                                   *)
(***************************************************************************)
\* the locals of the running mode of main(); op = "none" before any run
NoJob == [op |-> "none", start |-> <<>>, key |-> None, messages |-> <<>>, i |-> 0,
          current_coord |-> <<>>, total_blocks |-> 0, max_steps |-> <<>>, steps |-> 0,
          printed |-> <<>>, queue |-> <<>>, index_mapping |-> <<>>,
          target |-> <<>>]

\* no ConversationNavigator has been constructed
NoBrowser == [blocks |-> <<>>, idx |-> 0, call |-> <<>>]

NoCall == [fn |-> "none", arg |-> None, ok |-> TRUE, ret |-> None, orig |-> None]

Init ==
    /\ cc = NoCall
    /\ hashTab = <<>>
    /\ walkers = <<>>
    /\ hubCoord = <<>>
    /\ files = <<>>
    /\ lastCall = [op |-> "none"]
    /\ pc = "idle"
    /\ nav = <<>>
    /\ job = NoJob
    /\ out = <<>>
    /\ imported = {}
    /\ attfiles = {}
    /\ indexFile = <<>>
    /\ browser = NoBrowser

(***************************************************************************)
(* Calls of the coordinate functions                                       *)
(***************************************************************************)
CallCoordConv ==
    /\ cc.fn = "none"
    /\ \E n \in NumInputs :
         cc' = [fn |-> "coord_conv", arg |-> n, ok |-> TRUE,
                ret |-> coord_conv(n), orig |-> None]
    /\ UNCHANGED <<browser, hashTab, walkers, hubCoord, files, lastCall, pc, nav, job, out, imported, attfiles, indexFile>>

\* baseTenConv applied to the digits coord_conv returned for cc.arg
CallBaseTenConv ==
    /\ cc.fn = "coord_conv"
    /\ cc' = [fn |-> "baseTenConv", arg |-> cc.ret, ok |-> TRUE,
              ret |-> baseTenConv(cc.ret), orig |-> cc.arg]
    /\ UNCHANGED <<browser, hashTab, walkers, hubCoord, files, lastCall, pc, nav, job, out, imported, attfiles, indexFile>>

CallParseCoordinate ==
    /\ cc.fn = "none"
    /\ \E s \in StrInputs :
         cc' = [fn |-> "parse_coordinate", arg |-> s, ok |-> parse_ok(s),
                ret |-> IF parse_ok(s) THEN parse_coordinate(s) ELSE <<>>,
                orig |-> None]
    /\ UNCHANGED <<browser, hashTab, walkers, hubCoord, files, lastCall, pc, nav, job, out, imported, attfiles, indexFile>>

\* get_coordinates on a Coordinate whose coordinates are the parsed list
CallGetCoordinates ==
    /\ cc.fn = "parse_coordinate"
    /\ cc.ok
    /\ cc' = [fn |-> "get_coordinates", arg |-> cc.ret, ok |-> TRUE,
              ret |-> get_coordinates(cc.ret), orig |-> cc.arg]
    /\ UNCHANGED <<browser, hashTab, walkers, hubCoord, files, lastCall, pc, nav, job, out, imported, attfiles, indexFile>>

NextCoord ==
    \/ CallCoordConv
    \/ CallBaseTenConv
    \/ CallParseCoordinate
    \/ CallGetCoordinates

SpecCoord == Init /\ [][NextCoord]_vars

(***************************************************************************)
(* C9, C10: round trips of the coordinate conversions                      *)
(***************************************************************************)
DigitsInRange(d) == Len(d) = NDigits /\ \A i \in 1..Len(d) : d[i] \in 0..(Base - 1)

\* C9: baseTenConv(coord_conv(n)) = n for n in [0, SPACE_SIZE), and
\* = n mod SPACE_SIZE for every other integer n (negative ones included);
\* coord_conv(n) always has exactly six digits, each in [0, Base-1].
C9_RoundTrip ==
    /\ cc.fn = "coord_conv" => DigitsInRange(cc.ret)
    /\ cc.fn = "baseTenConv" =>
         /\ cc.ret = cc.orig % SPACE_SIZE
         /\ cc.orig \in 0..(SPACE_SIZE - 1) => cc.ret = cc.orig

C9_Witness ==
    /\ cc.fn = "baseTenConv"
    /\ cc.orig < 0
    /\ cc.ret = cc.orig + 2 * SPACE_SIZE

\* a string in the form get_coordinates writes: parts without surplus
\* leading zeros, separated by exactly one space, nothing before or after
IsCanonical(s) ==
    /\ s # <<>>
    /\ s[1] # "0" \/ Len(s) = 1 \/ s[2] = " "
    /\ \A i \in 1..Len(s) :
         /\ s[i] # "\t"
         /\ s[i] = " " => /\ i > 1 /\ i < Len(s)
                          /\ s[i + 1] # " "
                          /\ s[i + 1] # "0" \/ i + 1 = Len(s) \/ s[i + 2] = " "

\* C10 as stated: for every string s that parse_coordinate accepts,
\* formatting the parsed digits returns exactly s.
C10_Original == cc.fn = "get_coordinates" => cc.ret = cc.orig

\* C10 amended: formatting the parsed digits returns the canonical form of
\* s: it parses to the same digits, and it equals s exactly when s is
\* already canonical (no padded part, single-space separators, no outer
\* whitespace).
C10_FormatParse ==
    cc.fn = "get_coordinates" =>
        /\ parse_ok(cc.ret)
        /\ parse_coordinate(cc.ret) = cc.arg
        /\ IsCanonical(cc.ret)
        /\ (cc.ret = cc.orig) <=> IsCanonical(cc.orig)

C10_Witness ==
    /\ cc.fn = "get_coordinates"
    /\ cc.orig[1] = "0" /\ cc.orig[2] = "0"
    /\ cc.ret # cc.orig

(***************************************************************************)
(* Two hubs, each seeding and stepping its own walker                      *)
(***************************************************************************)
\* number of step() calls a walker makes
MaxWalk == 3

Keys == {"k1", "k2"}

ZeroStr == get_coordinates(Zeros)

TopStr == get_coordinates([i \in 1..NDigits |-> Base - 1])

MidStr == get_coordinates(<<1, Base - 1, 0, 0, Base - 1, 1>>)

PaddedZeroStr == join(<<" ">>, [i \in 1..NDigits |-> <<"0", "0">>])

BadStr == <<"1", " ", "2", " ", "x">>

WalkStarts == {ZeroStr, PaddedZeroStr, TopStr, MidStr, BadStr}

\* NavigationHub(start) followed by default(key), as every mode of main does
WalkNew(w) ==
    /\ w \notin DOMAIN walkers
    /\ \E start \in WalkStarts, key \in Keys :
         LET hub == NavigationHub(start)
             dec == baseTenConv(hub.start_coord)
         IN  \E imag0 \in HashChoices(hashTab, ImagInput(dec, key), ImagSeeds),
                X0 \in HashChoices(hashTab, XInput(dec, key), XSeeds) :
               /\ hashTab' = HashRecord(HashRecord(hashTab, ImagInput(dec, key), imag0),
                                        XInput(dec, key), X0)
               /\ walkers' = (w :> [hub |-> default(hub, key, imag0, X0), start |-> start,
                                    k |-> 0, emitted |-> <<>>]) @@ walkers
    /\ UNCHANGED <<browser, cc, hubCoord, files, lastCall, pc, nav, job, out, imported, attfiles, indexFile>>

\* NavigationHub.step()
WalkStep(w) ==
    /\ w \in DOMAIN walkers
    /\ walkers[w].k < MaxWalk
    /\ walkers' = [walkers EXCEPT
                     ![w].hub.active_path = step(@),
                     ![w].emitted = step_ret(walkers[w].hub.active_path),
                     ![w].k = @ + 1]
    /\ UNCHANGED <<browser, cc, hashTab, hubCoord, files, lastCall, pc, nav, job, out, imported, attfiles, indexFile>>

NextWalk == \E w \in 1..2 : WalkNew(w) \/ WalkStep(w)

SpecWalk == Init /\ [][NextWalk]_vars

C7_WalkClosure ==
    \A w \in DOMAIN walkers :
        walkers[w].k > 0 =>
            /\ Len(split(walkers[w].emitted)) = NDigits
            /\ \A i \in 1..Len(split(walkers[w].emitted)) :
                 /\ isdigit(split(walkers[w].emitted)[i])
                 /\ int(split(walkers[w].emitted)[i]) \in 0..(Base - 1)
            /\ walkers[w].hub.active_path.coord_dec \in 0..(SPACE_SIZE - 1)
            /\ walkers[w].emitted = strCoord_conv(walkers[w].hub.active_path.coord_dec)

\* a first step from coordinate zero with X = 0, where coord^2 - imag^2 + X
\* is negative before the reduction
C7_Witness ==
    \E w \in DOMAIN walkers :
        /\ walkers[w].k = 1
        /\ walkers[w].hub.start_coord = Zeros
        /\ walkers[w].hub.active_path.X = 0
        /\ walkers[w].hub.active_path.coord_dec > SPACE_SIZE - M * M
        /\ Len(walkers[w].emitted) = 2 * NDigits - 1

(***************************************************************************)
(* Direct calls of the DataManager API                                     *)
(***************************************************************************)
\* blocks the store may hold
MaxBlocks == 2

\* layer entries the store may hold
MaxLayers == 2

\* two coordinates that share a bucket file
DMCoords == {ZeroStr, get_coordinates(<<1, 0, 0, 0, 0, 0>>)}

\* incoming universes; a stored universe outside this set was reassigned
UniverseInputs == {0, 2}

DMBlocks == [block : [user : {"u", "v"}, assistant : {"a"}],
             universe : UniverseInputs, attachments : {<<>>}, layers : {<<>>}]

RECURSIVE SumOver(_, _)
SumOver(S, f) ==
    IF S = {} THEN 0 ELSE LET x == CHOOSE y \in S : TRUE IN f[x] + SumOver(S \ {x}, f)

\* the (file, key) pairs of the store
BucketKeys(fs) ==
    {qk \in {<<q, k>> : q \in DOMAIN fs, k \in UNION {DOMAIN fs[r].data : r \in DOMAIN fs}} :
       qk[2] \in DOMAIN fs[qk[1]].data}

\* number of blocks in the store
BlockCount(fs) ==
    SumOver(BucketKeys(fs), [qk \in BucketKeys(fs) |-> Len(fs[qk[1]].data[qk[2]])])

\* number of layer entries in the store
LayerCount(fs) ==
    SumOver(BucketKeys(fs),
            [qk \in BucketKeys(fs) |->
               LET b == fs[qk[1]].data[qk[2]]
               IN  SumOver(1..Len(b), [i \in 1..Len(b) |-> Cardinality(DOMAIN b[i].layers)])])

DMCreate ==
    /\ pc = "idle"
    /\ \E coordinate \in DMCoords, block \in DMBlocks :
         /\ BlockCount(files) < MaxBlocks
         /\ files' = create_coordinate_block(files, coordinate, block)
         /\ lastCall' = [op |-> "create_coordinate_block"]
    /\ UNCHANGED <<browser, cc, hashTab, walkers, hubCoord, pc, nav, job, out, imported, attfiles, indexFile>>

DMAddLayer ==
    /\ pc = "idle"
    /\ \E coordinate \in DMCoords, universe \in UniverseInputs,
          layer_level \in 1..2, layer_data \in {"p", "q"} :
         /\ files' = add_layer_to_universe(files, coordinate, universe, layer_level, layer_data)
         /\ LayerCount(files') <= MaxLayers
         /\ lastCall' = [op |-> "add_layer_to_universe"]
    /\ UNCHANGED <<browser, cc, hashTab, walkers, hubCoord, pc, nav, job, out, imported, attfiles, indexFile>>

NextDM == DMCreate \/ DMAddLayer

SpecDM == Init /\ [][NextDM]_vars

(***************************************************************************)
(* C3, C5, C6: universes on write                                          *)
(***************************************************************************)
\* C3: after any sequence of create_coordinate_block and
\* add_layer_to_universe calls from the empty store, the universe values of
\* the blocks of every bucket are pairwise distinct.
C3_UniverseUnique ==
    \A qk \in BucketKeys(files) :
        LET b == files[qk[1]].data[qk[2]]
        IN  \A i \in 1..Len(b), j \in 1..Len(b) : i # j => b[i].universe # b[j].universe

\* a bucket holding a reassigned universe and a layer, after an add_layer call
C3_Witness ==
    /\ lastCall.op = "add_layer_to_universe"
    /\ \E qk \in BucketKeys(files) :
         LET b == files[qk[1]].data[qk[2]]
         IN  /\ Len(b) = 2
             /\ b[2].universe \notin UniverseInputs
             /\ DOMAIN b[1].layers # {}

\* the list without its i-th element
Without(seq, i) == SubSeq(seq, 1, i - 1) \o SubSeq(seq, i + 1, Len(seq))

\* the step is the call create_coordinate_block(c, b)
IsCreate(c, b) ==
    /\ lastCall'.op = "create_coordinate_block"
    /\ files' = create_coordinate_block(files, c, b)

IsRewrite(c, b) ==
    /\ IsCreate(c, b)
    /\ \E i \in 1..Len(load_coordinate_data(files, c)) :
         load_coordinate_data(files, c)[i] = to_dict(b)

\* C6 as stated: writing the same block (same coordinate, universe and
\* content) a second time leaves the bucket exactly as it was.
C6_Original ==
    [][\A c \in DMCoords, b \in DMBlocks :
         IsRewrite(c, b) =>
            load_coordinate_data(files', c) = load_coordinate_data(files, c)]_vars

\* C6 amended: writing the same block a second time keeps every block of
\* the bucket and appends a second copy of the block, stored with universe
\* max(existing) + 1.
C6_RewriteAppends ==
    [][\A c \in DMCoords, b \in DMBlocks :
         IsRewrite(c, b) =>
            LET pre == load_coordinate_data(files, c)
            IN  load_coordinate_data(files', c) =
                  Append(pre, [to_dict(b) EXCEPT !.universe = Max(Universes(pre)) + 1])]_vars

\* a bucket holding the same content twice, the copy under a reassigned universe
C6_Witness ==
    /\ lastCall.op = "create_coordinate_block"
    /\ \E qk \in BucketKeys(files) :
         LET b == files[qk[1]].data[qk[2]]
         IN  /\ Len(b) = 2
             /\ b[1].block = b[2].block
             /\ b[1].universe = 0 /\ b[2].universe = 1

(***************************************************************************)
(* navigation_hub.py: store_conversation and restore_conversation          *)
(* nav is <<>> outside a run and <<hub>> inside one; out is what the       *)
(* running restore has printed, a list of (coordinate, universe, user,     *)
(* assistant); imported lists the conversations stored so far.             *)
(***************************************************************************)
\* messages of the longest conversation
MaxMsgs == 3

\* coordinates a restore may visit before the model stops following it
MaxRestore == 4

StoreStarts == {ZeroStr, MidStr, BadStr}

\* the text typed at "Max steps (blank=until empty)"
LimitInputs == {<<>>, <<"0">>, <<"1">>}

\* the n messages of the conversation of that key: the content of message j
\* names the conversation and j
Messages(key, n) == [j \in 1..n |-> [content |-> <<key>> \o str(j)]]

\* mutant: the pair is read one message late
Content_next(messages, i) == IF i + 2 <= Len(messages) THEN messages[i + 2].content ELSE <<>>

\* messages[i].get("content", "") with i counted from 0, "" when i is past the end
Content(messages, i) == IF i + 1 <= Len(messages) THEN messages[i + 1].content ELSE <<>>

StoreBegin ==
    /\ pc = "idle"
    /\ \E start \in StoreStarts, key \in Keys, n \in 0..MaxMsgs :
         LET hub == NavigationHub(start)
             dec == baseTenConv(hub.start_coord)
         IN  /\ \A c \in imported : c.key # key
             /\ \E imag0 \in HashChoices(hashTab, ImagInput(dec, key), ImagSeeds),
                   X0 \in HashChoices(hashTab, XInput(dec, key), XSeeds) :
                  /\ hashTab' = HashRecord(HashRecord(hashTab, ImagInput(dec, key), imag0),
                                           XInput(dec, key), X0)
                  /\ nav' = <<default(hub, key, imag0, X0)>>
             /\ job' = [NoJob EXCEPT !.op = "store", !.start = start, !.key = key,
                                     !.messages = Messages(key, n),
                                     !.current_coord = strCoord_conv(dec),
                                     !.printed = hub.printed]
             /\ imported' = imported \cup {[start |-> start, key |-> key,
                                            messages |-> Messages(key, n)]}
    /\ pc' = "store"
    /\ out' = <<>>
    /\ UNCHANGED <<browser, cc, walkers, hubCoord, files, lastCall, attfiles, indexFile>>

\* one iteration of "for i in range(0, len(messages), 2)"
StoreIter ==
    /\ pc = "store"
    /\ job.i < Len(job.messages)
    /\ ~load_raises(files, json_path(job.current_coord))
    /\ LET path == nav[1].active_path
           block == [block |-> [user |-> Content(job.messages, job.i),
                                assistant |-> Content(job.messages, job.i + 1)],
                     universe |-> path.imag, attachments |-> <<>>, layers |-> <<>>]
       IN  /\ files' = create_coordinate_block(files, job.current_coord, block)
           /\ nav' = <<[nav[1] EXCEPT !.active_path = step(path)]>>
           /\ job' = [job EXCEPT !.i = @ + 2, !.total_blocks = @ + 1,
                                 !.current_coord = step_ret(path)]
    /\ lastCall' = [op |-> "create_coordinate_block"]
    /\ UNCHANGED <<browser, cc, hashTab, walkers, hubCoord, pc, out, imported, attfiles, indexFile>>

\* the loop is over: "Stored n blocks" and the process ends
StoreEnd ==
    /\ pc = "store"
    /\ job.i >= Len(job.messages)
    /\ pc' = "idle"
    /\ nav' = <<>>
    /\ UNCHANGED <<browser, cc, hashTab, walkers, hubCoord, files, lastCall, job, out, imported, attfiles, indexFile>>

\* restore_conversation up to its loop, for a conversation stored before
RestoreBegin ==
    /\ pc = "idle"
    /\ \E conv \in imported, max_steps_s \in LimitInputs :
         LET hub == NavigationHub(conv.start)
             dec == baseTenConv(hub.start_coord)
         IN  /\ \E imag0 \in HashChoices(hashTab, ImagInput(dec, conv.key), ImagSeeds),
                   X0 \in HashChoices(hashTab, XInput(dec, conv.key), XSeeds) :
                  /\ hashTab' = HashRecord(HashRecord(hashTab, ImagInput(dec, conv.key), imag0),
                                           XInput(dec, conv.key), X0)
                  /\ nav' = <<default(hub, conv.key, imag0, X0)>>
             /\ job' = [NoJob EXCEPT !.op = "restore", !.start = conv.start, !.key = conv.key,
                                     !.messages = conv.messages,
                                     !.current_coord = strCoord_conv(dec),
                                     !.max_steps = IF isdigit(max_steps_s)
                                                   THEN <<int(max_steps_s)>> ELSE <<>>,
                                     !.printed = hub.printed]
    /\ pc' = "restore"
    /\ out' = <<>>
    /\ UNCHANGED <<browser, cc, walkers, hubCoord, files, lastCall, imported, attfiles, indexFile>>

\* one iteration of the "while True" of restore_conversation
RestoreIter ==
    /\ pc = "restore"
    /\ job.steps < MaxRestore
    /\ ~load_raises(files, json_path(job.current_coord))
    /\ LET all_blocks == load_coordinate_data(files, job.current_coord)
           path == nav[1].active_path
           idx == FirstWithUniverse(all_blocks, path.imag)
           limited == job.max_steps # <<>> /\ job.max_steps[1] # 0
       IN  IF all_blocks = <<>>
           THEN /\ pc' = "idle"
                /\ nav' = <<>>
                /\ job' = [job EXCEPT !.printed =
                             IF job.steps = 0
                             THEN Append(@, "No blocks found at starting coordinate.")
                             ELSE @]
                /\ out' = out
           ELSE IF idx = 0
           THEN /\ pc' = "idle"
                /\ nav' = <<>>
                /\ job' = [job EXCEPT !.printed = Append(@, "No block for universe")]
                /\ out' = out
           ELSE /\ out' = Append(out, [coord |-> job.current_coord, universe |-> path.imag,
                                       user |-> all_blocks[idx].block.user,
                                       assistant |-> all_blocks[idx].block.assistant])
                /\ IF limited /\ job.steps + 1 >= job.max_steps[1]
                   THEN /\ pc' = "idle"
                        /\ nav' = <<>>
                        /\ job' = [job EXCEPT !.steps = @ + 1]
                   ELSE /\ pc' = "restore"
                        /\ nav' = <<[nav[1] EXCEPT !.active_path = step(path)]>>
                        /\ job' = [job EXCEPT !.steps = @ + 1,
                                              !.current_coord = step_ret(path)]
    /\ UNCHANGED <<browser, cc, hashTab, walkers, hubCoord, files, lastCall, imported, attfiles, indexFile>>

Next ==
    \/ StoreBegin
    \/ StoreIter
    \/ StoreEnd
    \/ RestoreBegin
    \/ RestoreIter

Spec == Init /\ [][Next]_vars

(***************************************************************************)
(* C1, C4, C8: store and restore                                           *)
(***************************************************************************)
\* the (user, assistant) pairing of a message list: messages 2k and 2k+1
Expected(messages) ==
    [k \in 1..((Len(messages) + 1) \div 2) |->
       [user |-> messages[2 * k - 1].content,
        assistant |-> IF 2 * k <= Len(messages) THEN messages[2 * k].content ELSE <<>>]]

OutPairs == [i \in 1..Len(out) |-> [user |-> out[i].user, assistant |-> out[i].assistant]]

IsPrefix(a, b) == Len(a) <= Len(b) /\ a = SubSeq(b, 1, Len(a))

\* C1: restoring an imported conversation with its (start, key) and no
\* step limit emits exactly the blocks of that conversation, in order: what
\* has been emitted is always a prefix of the original pairing, and the
\* finished restore emitted all of it.
C1_StoreRestoreInverse ==
    (job.op = "restore" /\ job.max_steps = <<>>) =>
        /\ IsPrefix(OutPairs, Expected(job.messages))
        /\ pc = "idle" => OutPairs = Expected(job.messages)

\* the keys of the conversations that have a block in the bucket
KeysAt(coord) ==
    {load_coordinate_data(files, coord)[i].block.user[1] :
        i \in 1..Len(load_coordinate_data(files, coord))}

\* C4: when a conversation writes at a coordinate where another
\* conversation's block already has the walker's imag as universe, its block
\* is stored with that block's universe + 1, and a restore of either
\* conversation emits, at a coordinate the two share, its own block.
C4_CollisionScenario ==
    /\ [][LET pre == load_coordinate_data(files, job.current_coord)
              post == load_coordinate_data(files', job.current_coord)
              first == FirstWithUniverse(pre, nav[1].active_path.imag)
          IN  ( /\ pc = "store"
                /\ files' # files
                /\ first # 0
                /\ pre[first].block.user[1] # job.key )
              => \E j \in 1..Len(post) :
                   /\ post[j].block.user = Content(job.messages, job.i)
                   /\ post[j].universe = pre[first].universe + 1]_vars
    /\ [](job.op = "restore" =>
            \A i \in 1..Len(out) :
                Cardinality(KeysAt(out[i].coord)) > 1 => out[i].user[1] = job.key)

\* C8 as stated: with a malformed start coordinate the archiver refuses to
\* start: no walker is seeded and no block is written.
C8_Original ==
    (job.op = "store" /\ ~parse_ok(job.start)) =>
        /\ nav = <<>>
        /\ job.total_blocks = 0

\* C8 amended: with a malformed start coordinate the hub prints "Invalid
\* input. Defaulting to all zeros.", the walker is seeded at coordinate
\* 0 0 0 0 0 0 and the import proceeds from there, writing every pair.
C8_InvalidStartDefaults ==
    (job.op = "store" /\ ~parse_ok(job.start)) =>
        /\ job.printed = <<"Invalid input. Defaulting to all zeros.">>
        /\ pc = "store" => /\ nav[1].start_coord = Zeros
                           /\ job.total_blocks = 0 =>
                                /\ nav[1].active_path.coord_dec = 0
                                /\ job.current_coord = ZeroStr
        /\ job.total_blocks >= 1 =>
             \E i \in 1..Len(load_coordinate_data(files, ZeroStr)) :
                load_coordinate_data(files, ZeroStr)[i].block.user = job.messages[1].content
        /\ pc = "idle" => job.total_blocks = (Len(job.messages) + 1) \div 2

C8_Witness ==
    /\ job.op = "store"
    /\ ~parse_ok(job.start)
    /\ pc = "idle"
    /\ job.total_blocks = 2

(***************************************************************************)
(* C11: digit order of the coordinate string                               *)
(***************************************************************************)
Reverse(q) == [i \in 1..Len(q) |-> q[Len(q) + 1 - i]]

\* digit i (from 0, the least significant) of the value v
DigitOf(v, i) == (v \div (Base ^ i)) % Base

\* C11 as stated: the string is most-significant first: parse returns the
\* parts in reverse order, the last part is the units digit of the value,
\* and format writes the digits from d5 down to d0.
C11_Original ==
    /\ (cc.fn = "parse_coordinate" /\ cc.ok) =>
         /\ cc.ret = Reverse([i \in 1..NDigits |-> int(split(cc.arg)[i])])
         /\ DigitOf(baseTenConv(cc.ret), 0) = int(split(cc.arg)[NDigits])
    /\ cc.fn = "get_coordinates" =>
         \A i \in 1..NDigits : split(cc.ret)[i] = str(cc.arg[NDigits + 1 - i])

\* C11 amended: the string is least-significant first: part i of the string
\* (from 1) is digit i-1 of the base-10 value of the parsed list, parse
\* keeps the order of the parts, format writes the digits from d0 up to d5,
\* and strCoord_conv writes the units digit of its number first.
C11_DigitOrder ==
    /\ (cc.fn = "parse_coordinate" /\ cc.ok) =>
         /\ \A i \in 1..NDigits :
              /\ DigitOf(baseTenConv(cc.ret), i - 1) = int(split(cc.arg)[i])
              /\ cc.ret[i] = int(split(cc.arg)[i])
    /\ cc.fn = "get_coordinates" =>
         \A i \in 1..NDigits :
              split(cc.ret)[i] = str(DigitOf(baseTenConv(cc.arg), i - 1))
    /\ cc.fn = "coord_conv" =>
         /\ split(strCoord_conv(cc.arg))[1] = str(cc.arg % Base)
         /\ parse_ok(strCoord_conv(cc.arg))
         /\ parse_coordinate(strCoord_conv(cc.arg)) = cc.ret

\* the string "2 0 0 0 0 0" (in radix 3) parsed to the value 2
C11_Witness ==
    /\ cc.fn = "parse_coordinate"
    /\ cc.ok
    /\ split(cc.arg)[1] = str(Base - 1)
    /\ \A i \in 2..NDigits : split(cc.arg)[i] = str(0)
    /\ baseTenConv(cc.ret) = Base - 1

(***************************************************************************)
(* C12: what parse_coordinate accepts                                      *)
(***************************************************************************)
\* s consists of six whitespace-separated decimal integers below the radix
SixInRange(s) ==
    /\ Len(split(s)) = NDigits
    /\ \A i \in 1..Len(split(s)) : isdigit(split(s)[i]) /\ int(split(s)[i]) < Base

\* C12: parse_coordinate accepts a string exactly when it consists of six
\* whitespace-separated decimal integers each below the radix, whatever the
\* whitespace that separates them, and raises ValueError for every other
\* string; an accepted string gives six digits, each in range.
C12_ParseAccepts ==
    cc.fn = "parse_coordinate" =>
        /\ cc.ok <=> SixInRange(cc.arg)
        /\ cc.ok => DigitsInRange(cc.ret)

(***************************************************************************)
(* A Coordinate object under increment() and decrement()                   *)
(* hubCoord is <<>> before the object exists and <<c>> after; c.trail      *)
(* lists the fields before each call made so far and c.ops the calls.      *)
(***************************************************************************)
\* calls made on one Coordinate object
MaxOps == 3

IncStarts == [1..NDigits -> {0, Base - 1}] \cup {coord_conv(1), coord_conv(Base)}

Fields(c) == [coordinates |-> c.coordinates, universes |-> c.universes]

\* Coordinate() followed by an assignment of its coordinates
CoordNew ==
    /\ hubCoord = <<>>
    /\ \E start \in IncStarts :
         hubCoord' = <<[coordinates |-> start, universes |-> 0,
                        trail |-> <<>>, ops |-> <<>>]>>
    /\ UNCHANGED <<browser, cc, hashTab, walkers, files, lastCall, pc, nav, job, out, imported, attfiles, indexFile>>

CallIncrement ==
    /\ hubCoord # <<>>
    /\ Len(hubCoord[1].ops) < MaxOps
    /\ LET c == hubCoord[1]
           r == increment(Fields(c))
       IN  hubCoord' = <<[coordinates |-> r.coordinates, universes |-> r.universes,
                          trail |-> Append(c.trail, Fields(c)),
                          ops |-> Append(c.ops, "increment")]>>
    /\ UNCHANGED <<browser, cc, hashTab, walkers, files, lastCall, pc, nav, job, out, imported, attfiles, indexFile>>

CallDecrement ==
    /\ hubCoord # <<>>
    /\ Len(hubCoord[1].ops) < MaxOps
    /\ LET c == hubCoord[1]
           r == decrement(Fields(c))
       IN  hubCoord' = <<[coordinates |-> r.coordinates, universes |-> r.universes,
                          trail |-> Append(c.trail, Fields(c)),
                          ops |-> Append(c.ops, "decrement")]>>
    /\ UNCHANGED <<browser, cc, hashTab, walkers, files, lastCall, pc, nav, job, out, imported, attfiles, indexFile>>

NextInc == CoordNew \/ CallIncrement \/ CallDecrement

SpecInc == Init /\ [][NextInc]_vars

\* the fields after call k: the entry of the trail before call k+1, or the
\* present fields after the last call
After(c, k) == IF k < Len(c.ops) THEN c.trail[k + 1] ELSE Fields(c)

\* C13: every digit stays in range; increment takes the value v to
\* (v+1) mod SPACE_SIZE and raises universes by 1 exactly when v was
\* SPACE_SIZE-1; decrement takes v to (v-1) mod SPACE_SIZE and lowers
\* universes by 1 exactly when v was 0; increment followed by decrement
\* restores digits and universes.
C13_IncDec ==
    hubCoord # <<>> =>
      LET c == hubCoord[1]
      IN  /\ DigitsInRange(c.coordinates)
          /\ \A k \in 1..Len(c.ops) :
               LET v == baseTenConv(c.trail[k].coordinates)
                   U == c.trail[k].universes
                   a == After(c, k)
               IN  /\ c.ops[k] = "increment" =>
                        /\ baseTenConv(a.coordinates) = (v + 1) % SPACE_SIZE
                        /\ a.universes = IF v = SPACE_SIZE - 1 THEN U + 1 ELSE U
                   /\ c.ops[k] = "decrement" =>
                        /\ baseTenConv(a.coordinates) = (v - 1) % SPACE_SIZE
                        /\ a.universes = IF v = 0 THEN U - 1 ELSE U
                   /\ (k > 1 /\ c.ops[k - 1] = "increment" /\ c.ops[k] = "decrement") =>
                        a = c.trail[k - 1]

\* increment from the top coordinate, then decrement back to it
C13_Witness ==
    /\ hubCoord # <<>>
    /\ hubCoord[1].ops = <<"increment", "decrement">>
    /\ hubCoord[1].trail[1] = [coordinates |-> [i \in 1..NDigits |-> Base - 1], universes |-> 0]
    /\ hubCoord[1].trail[2] = [coordinates |-> Zeros, universes |-> 1]
    /\ Fields(hubCoord[1]) = hubCoord[1].trail[1]

(***************************************************************************)
(* Bucket files damaged between runs                                       *)
(***************************************************************************)
\* what a damaged file holds: text that is not JSON, or bytes that are not
\* UTF-8
Damages == {[utf8 |-> TRUE, ok |-> FALSE, data |-> <<>>],
            [utf8 |-> FALSE, ok |-> FALSE, data |-> <<>>]}

\* an existing bucket file is damaged while no mode is running, after an
\* import (a restore writes nothing, so damage after it leads to the same
\* files); one file is damaged at a time
DamageFile ==
    /\ pc = "idle"
    /\ job.op = "store"
    /\ \A q \in DOMAIN files : files[q].ok
    /\ \E path \in DOMAIN files, d \in Damages :
         /\ files' = [files EXCEPT ![path] = d]
    /\ UNCHANGED <<browser, cc, hashTab, walkers, hubCoord, lastCall, pc, nav, job, out, imported, attfiles, indexFile>>

\* the uncaught exception of _load_json ends the running mode with a traceback
LoadCrash ==
    /\ pc \in {"store", "restore"}
    /\ pc = "store" => job.i < Len(job.messages)
    /\ pc = "restore" => job.steps < MaxRestore
    /\ load_raises(files, json_path(job.current_coord))
    /\ pc' = "idle"
    /\ nav' = <<>>
    /\ job' = [job EXCEPT !.printed = Append(@, "UnicodeDecodeError")]
    /\ UNCHANGED <<browser, cc, hashTab, walkers, hubCoord, files, lastCall, out, imported, attfiles, indexFile>>

NextDamage ==
    \/ StoreBegin
    \/ StoreIter
    \/ StoreEnd
    \/ RestoreBegin
    \/ RestoreIter
    \/ DamageFile
    \/ LoadCrash

SpecDamage == Init /\ [][NextDamage]_vars

\* the bucket file of the coordinate is absent or json.load does not accept it
Unreadable(fs, coordinate) ==
    \/ json_path(coordinate) \notin DOMAIN fs
    \/ ~fs[json_path(coordinate)].ok

\* C14: reading a coordinate whose bucket file is absent or unparsable
\* raises no error and returns the empty list, and a restore whose walk
\* reaches such a coordinate ends there, normally, with no further block
\* emitted.
C14_UnreadableIsEmpty ==
    [][(pc = "restore" /\ job.steps < MaxRestore /\ Unreadable(files, job.current_coord))
        => /\ ~load_raises(files, json_path(job.current_coord))
           /\ load_coordinate_data(files, job.current_coord) = <<>>
           /\ pc' = "idle"
           /\ out' = out
           /\ \A i \in 1..Len(job'.printed) : job'.printed[i] # "UnicodeDecodeError"]_vars

(***************************************************************************)
(* create_coordinate_block with attachments                                *)
(***************************************************************************)
AttNames == {"a.png", "b.png"}

AttLists == {<<>>, <<"a.png">>, <<"b.png">>, <<"a.png", "b.png">>}

\* attachments_source_dir: None, or a directory with some of the files
SourceDirs == {<<>>} \cup {<<S>> : S \in SUBSET AttNames}

\* DataManager(base_dir, attachments_source_dir).create_coordinate_block
DMCreateAtt ==
    /\ BlockCount(files) < MaxBlocks
    /\ \E c \in DMCoords, u \in UniverseInputs, atts \in AttLists, src_dir \in SourceDirs :
         LET b == [block |-> [user |-> <<"u">>, assistant |-> <<"a">>], universe |-> u,
                   attachments |-> atts, layers |-> <<>>]
             r == copy_attachments(attfiles, src_dir, c, b)
         IN  /\ attfiles' = r.attfiles
             /\ files' = create_coordinate_block(files, c, b)
             /\ lastCall' = [op |-> "create_coordinate_block", coordinate |-> c,
                             attachments |-> atts, warned |-> r.warned]
    /\ UNCHANGED <<browser, cc, hashTab, walkers, hubCoord, pc, nav, job, out, imported, indexFile>>

NextAtt == DMCreateAtt

SpecAtt == Init /\ [][NextAtt]_vars

Range(q) == {q[i] : i \in 1..Len(q)}

\* C15: after create_coordinate_block has written a block, every file name
\* of the block's attachments exists in the attachment folder of the
\* coordinate or was warned about as missing during the write, whether or
\* not an attachments source directory is set.
C15_AttachmentComplete ==
    (lastCall.op = "create_coordinate_block" /\ "attachments" \in DOMAIN lastCall) =>
        \A fname \in Range(lastCall.attachments) :
            \/ [dir |-> att_dir(lastCall.coordinate), fname |-> fname] \in attfiles
            \/ fname \in Range(lastCall.warned)

(***************************************************************************)
(* C19: add_layer_to_universe                                              *)
(***************************************************************************)
\* the bucket post is the bucket pre with payload set as layer level of
\* its i-th block and nothing else changed
LayerSet(pre, post, i, level, payload) ==
    /\ Len(post) = Len(pre)
    /\ \A j \in 1..Len(pre) : j # i => post[j] = pre[j]
    /\ post[i].block = pre[i].block
    /\ post[i].universe = pre[i].universe
    /\ post[i].attachments = pre[i].attachments
    /\ DOMAIN post[i].layers = DOMAIN pre[i].layers \cup {str(level)}
    /\ post[i].layers[str(level)] = payload
    /\ \A k \in DOMAIN pre[i].layers :
         k # str(level) => post[i].layers[k] = pre[i].layers[k]

\* what add_layer_to_universe(c, u, level, payload) must have done to take
\* the files fs to fs2 (each bucket is read once)
AddLayerFrame(fs, fs2, c, u, level, payload) ==
    \A pre \in {load_coordinate_data(fs, c)} :
    \A i \in {FirstWithUniverse(pre, u)} :
       IF i = 0 THEN fs2 = fs
       ELSE /\ get_layer_data_for_universe(fs2, c, u, level) = payload
            /\ \A post \in {load_coordinate_data(fs2, c)} :
                  LayerSet(pre, post, i, level, payload)
            /\ \A c2 \in DMCoords :
                 c2 # c => load_coordinate_data(fs2, c2) = load_coordinate_data(fs, c2)

\* C19: in every store the calls have built, when the bucket at c holds a
\* block with universe u, after add_layer_to_universe(c, u, level, payload)
\* the layer read back is payload, every other block of the bucket, every
\* other field and layer of the modified block and every other coordinate
\* are as before; when no block has universe u the store is unchanged.
C19_AddLayerFrame ==
    \A c \in DMCoords, u \in UniverseInputs, level \in 1..2, payload \in {"p", "q"} :
       \A after \in {add_layer_to_universe(files, c, u, level, payload)} :
          AddLayerFrame(files, after, c, u, level, payload)

\* a second layer added to a block that has a neighbour in its bucket
C19_Witness ==
    /\ lastCall.op = "add_layer_to_universe"
    /\ \E qk \in BucketKeys(files) :
         LET b == files[qk[1]].data[qk[2]]
         IN  /\ Len(b) = 2
             /\ DOMAIN b[1].layers = {str(1), str(2)}
             /\ b[1].layers[str(1)] # b[1].layers[str(2)]

(***************************************************************************)
(* navigation_hub.py: store_all_conversations.  The conversation          *)
(* directories of the root are the queue, in sorted order; indexFile is   *)
(* conversation_index.txt: <<>> while it does not exist, <<lines>> after. *)
(***************************************************************************)
\* the longest conversation of a batch
MaxBatchMsgs == 7

\* sorted(os.listdir(gpts_root)) can hold these names
ConvNames == <<"k1", "k2">>

\* a conversation directory: without a .json file, or with one of n messages
ConvDirs(name) ==
    {[name |-> name, json |-> <<>>]} \cup
    {[name |-> name, json |-> <<Messages(name, n)>>] : n \in 0..MaxBatchMsgs}

RECURSIVE Listings(_)
\* the sorted listings of directories named ConvNames[from..]
Listings(from) ==
    IF from > Len(ConvNames) THEN {<<>>}
    ELSE LET rest == Listings(from + 1)
         IN  rest \cup {<<d>> \o r : d \in ConvDirs(ConvNames[from]), r \in rest}

\* NavigationHub.default(key, start) with a start string: the string is
\* parsed, the hub's own start_coord is left as it was
default_start(hub, key, start, imag0, X0) ==
    LET sc == parse_coordinate(start)
    IN  [coordinates |-> sc, start_coord |-> hub.start_coord, printed |-> hub.printed,
         active_path |-> DefaultPath(sc, key, imag0, X0)]

\* store_all_conversations up to its loop over the directories
BatchBegin ==
    /\ pc = "idle"
    /\ indexFile = <<>>
    /\ \E listing \in Listings(1) :
         job' = [NoJob EXCEPT !.op = "store_all", !.queue = listing,
                              !.current_coord = PaddedZeroStr]
    /\ nav' = <<NavigationHub(PaddedZeroStr)>>
    /\ pc' = "batch"
    /\ out' = <<>>
    /\ UNCHANGED <<browser, cc, hashTab, walkers, hubCoord, files, lastCall, imported, attfiles,
                   indexFile>>

\* the head of one iteration of "for convo_name in sorted(...)": the index
\* entry, the walker seeded at current_coord_str, the conversation loaded
BatchConv ==
    /\ pc = "batch"
    /\ job.queue # <<>>
    /\ parse_ok(job.current_coord)
    /\ LET conv == Head(job.queue)
           dec == baseTenConv(parse_coordinate(job.current_coord))
           index == Append(job.index_mapping,
                           [name |-> conv.name, coord |-> job.current_coord])
       IN  \E imag0 \in HashChoices(hashTab, ImagInput(dec, conv.name), ImagSeeds),
              X0 \in HashChoices(hashTab, XInput(dec, conv.name), XSeeds) :
             /\ hashTab' = HashRecord(HashRecord(hashTab, ImagInput(dec, conv.name), imag0),
                                      XInput(dec, conv.name), X0)
             /\ nav' = <<default_start(nav[1], conv.name, job.current_coord, imag0, X0)>>
             /\ IF conv.json = <<>>
                THEN /\ job' = [job EXCEPT !.index_mapping = index, !.queue = Tail(@)]
                     /\ pc' = "batch"
                ELSE /\ job' = [job EXCEPT !.index_mapping = index,
                                           !.start = job.current_coord,
                                           !.key = conv.name,
                                           !.messages = conv.json[1],
                                           !.i = 0,
                                           !.total_blocks = 0,
                                           !.current_coord = strCoord_conv(dec)]
                     /\ pc' = "batch_conv"
             /\ imported' = imported \cup
                  {[start |-> job.current_coord, key |-> conv.name,
                    messages |-> IF conv.json = <<>> THEN <<>> ELSE conv.json[1]]}
    /\ UNCHANGED <<browser, cc, walkers, hubCoord, files, lastCall, out, attfiles, indexFile>>

\* one iteration of "for i in range(0, len(messages), 2)"
BatchIter ==
    /\ pc = "batch_conv"
    /\ job.i < Len(job.messages)
    /\ ~load_raises(files, json_path(job.current_coord))
    /\ LET path == nav[1].active_path
           block == [block |-> [user |-> Content(job.messages, job.i),
                                assistant |-> Content(job.messages, job.i + 1)],
                     universe |-> path.imag, attachments |-> <<>>, layers |-> <<>>]
       IN  /\ files' = create_coordinate_block(files, job.current_coord, block)
           /\ nav' = <<[nav[1] EXCEPT !.active_path = step(path)]>>
           /\ job' = [job EXCEPT !.i = @ + 2, !.total_blocks = @ + 1,
                                 !.current_coord = step_ret(path)]
    /\ lastCall' = [op |-> "create_coordinate_block"]
    /\ UNCHANGED <<browser, cc, hashTab, walkers, hubCoord, pc, out, imported, attfiles, indexFile>>

\* the inner loop is over: "stored n blocks; ended at ..." is printed
BatchConvEnd ==
    /\ pc = "batch_conv"
    /\ job.i >= Len(job.messages)
    /\ job' = [job EXCEPT !.queue = Tail(@),
                          !.printed = Append(@, [name |-> job.key,
                                                 stored |-> job.total_blocks,
                                                 ended |-> job.current_coord])]
    /\ pc' = "batch"
    /\ UNCHANGED <<browser, cc, hashTab, walkers, hubCoord, files, lastCall, nav, out, imported,
                   attfiles, indexFile>>

\* the outer loop is over: conversation_index.txt is written
BatchEnd ==
    /\ pc = "batch"
    /\ job.queue = <<>>
    /\ indexFile' = <<job.index_mapping>>
    /\ pc' = "idle"
    /\ nav' = <<>>
    /\ UNCHANGED <<browser, cc, hashTab, walkers, hubCoord, files, lastCall, job, out, imported,
                   attfiles>>

NextBatch ==
    \/ BatchBegin
    \/ BatchConv
    \/ BatchIter
    \/ BatchConvEnd
    \/ BatchEnd

SpecBatch == Init /\ [][NextBatch]_vars

(***************************************************************************)
(* C20: placement of an imported conversation                              *)
(***************************************************************************)
RECURSIVE AfterSteps(_, _)
\* a walker stepped k times
AfterSteps(path, k) == IF k = 0 THEN path ELSE step(AfterSteps(path, k - 1))

\* the fresh walker of the running import: seeded from the start the import
\* was given and its key, with the digests blake2b has for them
FreshWalker ==
    LET sl == NavigationHub(job.start).start_coord
        dec == baseTenConv(sl)
    IN  DefaultPath(sl, job.key, hashTab[ImagInput(dec, job.key)],
                    hashTab[XInput(dec, job.key)])

Importing == pc \in {"store", "batch_conv"}

\* the block of pair k (counted from 0) of the messages, with universe u
PairBlock(messages, k, u) ==
    [block |-> [user |-> messages[2 * k + 1].content,
                assistant |-> IF 2 * k + 2 <= Len(messages)
                              THEN messages[2 * k + 2].content ELSE <<>>],
     universe |-> u, attachments |-> <<>>, layers |-> <<>>]

\* C20: an import of n messages writes ceil(n/2) blocks in message order;
\* block k pairs message 2k as user with message 2k+1 as assistant ("" when
\* there is none), is written at the coordinate the walker holds after k
\* steps (the start for k = 0) with the walker's imag after k steps as its
\* incoming universe, and the walker is stepped exactly once after the write
C20_Placement ==
    [][Importing =>
         \A k \in {job.total_blocks} :
         \A w \in {AfterSteps(FreshWalker, k)} :
            IF pc' = pc
            THEN /\ 2 * k + 1 <= Len(job.messages)
                 /\ job.current_coord = get_coordinates(coord_conv(w.coord_dec))
                 /\ files' = create_coordinate_block(files, job.current_coord,
                                                     PairBlock(job.messages, k, w.imag))
                 /\ nav'[1].active_path = step(w)
                 /\ job'.total_blocks = k + 1
            ELSE /\ k = (Len(job.messages) + 1) \div 2
                 /\ files' = files]_vars

\* three messages have been placed as two blocks, the second without an
\* assistant message
C20_Witness ==
    /\ pc = "store"
    /\ Len(job.messages) = 3
    /\ job.total_blocks = 2
    /\ job.i >= Len(job.messages)

(***************************************************************************)
(* C16: the cursor of an import                                            *)
(***************************************************************************)
\* the coordinates a restart can read back: the lines of
\* conversation_index.txt, the only file an import writes besides the
\* bucket files and the attachments
PersistedCoords ==
    IF indexFile = <<>> THEN {}
    ELSE {indexFile[1][i].coord : i \in 1..Len(indexFile[1])}

\* C16 as stated: between the writes of an import the persisted cursor is
\* the next coordinate to be written
C16_Original == (Importing /\ job.total_blocks >= 1) => job.current_coord \in PersistedCoords

\* the coordinate keys under which fs and fs2 hold different buckets
ChangedKeys(fs, fs2) ==
    {k \in UNION {DOMAIN fs2[q].data : q \in DOMAIN fs2} :
        load_coordinate_data(fs, k) # load_coordinate_data(fs2, k)}

\* what the imports do keep: the cursor is the in-memory current coordinate.
\* Between the writes of an import it is where the walker stands and nothing
\* has been persisted; writes happen in message order, each one lands at the
\* cursor and is followed by the cursor moving to the walker's next
\* emission; in a batch the next conversation seeds its walker at the
\* cursor the previous one left and writes its first block there
InMemoryCursor ==
    [][/\ Importing =>
            /\ indexFile = <<>>
            /\ job.i = 2 * job.total_blocks
            /\ parse_coordinate(job.current_coord) = coord_conv(nav[1].active_path.coord_dec)
       /\ (Importing /\ pc' = pc) =>
            /\ ChangedKeys(files, files') = {job.current_coord}
            /\ job'.current_coord = step_ret(nav[1].active_path)
       /\ (pc = "batch_conv" /\ pc' = "batch") => job'.current_coord = job.current_coord
       /\ (pc = "batch" /\ pc' \in {"batch", "batch_conv"}) =>
            /\ parse_coordinate(job'.current_coord) = parse_coordinate(job.current_coord)
            /\ coord_conv(nav'[1].active_path.coord_dec) = parse_coordinate(job.current_coord)
            /\ job'.index_mapping[Len(job'.index_mapping)].coord = job.current_coord]_vars

\* a second conversation of a batch is being placed from the coordinate the
\* first one ended at, away from the initial coordinate
SecondConversation ==
    /\ pc = "batch_conv"
    /\ Len(job.index_mapping) = 2
    /\ job.index_mapping[2].coord # PaddedZeroStr
    /\ job.total_blocks >= 1

(***************************************************************************)
(* C17: the index and the coordinate an import ended at                    *)
(***************************************************************************)
\* a fresh walker seeded from an index entry: its start string and its name
EntryWalker(entry) ==
    LET sl == parse_coordinate(entry.coord)
        dec == baseTenConv(sl)
    IN  DefaultPath(sl, entry.name, hashTab[ImagInput(dec, entry.name)],
                    hashTab[XInput(dec, entry.name)])

\* the coordinate a walker emits after k steps (where it starts, for k = 0)
Emitted(path, k) == get_coordinates(coord_conv(AfterSteps(path, k).coord_dec))

\* the entry of the written index for a name
IndexEntry(name) ==
    CHOOSE e \in {indexFile[1][i] : i \in 1..Len(indexFile[1])} : e.name = name

\* the conversations the finished batch stored, with the coordinate each
\* ended at ("stored n blocks; ended at ...")
Ended == {job.printed[i] : i \in 1..Len(job.printed)}

\* C17 as stated: a fresh walker from the entry's start first emits the end
\* after exactly ceil(n/2) - 1 steps
C17_Original ==
    (pc = "idle" /\ indexFile # <<>>) =>
       \A r \in {x \in Ended : x.stored >= 1} :
       \A w \in {EntryWalker(IndexEntry(r.name))} :
          /\ Emitted(w, r.stored - 1) = r.ended
          /\ \A j \in 0..(r.stored - 2) : Emitted(w, j) # r.ended

\* C17 amended: for every conversation a batch import stored, a fresh
\* walker from the index entry's start with the conversation's name emits
\* the coordinate the import ended at after exactly ceil(n/2) steps (one
\* step for a single pair, none for an empty conversation)
C17_IndexReplay ==
    [][/\ (pc = "batch_conv" /\ pc' = "batch") =>
            \A r \in {job'.printed[Len(job'.printed)]} :
               /\ r.name = job.key
               /\ r.stored = (Len(job.messages) + 1) \div 2
               /\ r.ended = job.current_coord
       /\ (pc' = "idle" /\ indexFile' # <<>>) =>
            \A r \in {job'.printed[i] : i \in 1..Len(job'.printed)} :
            \A e \in {indexFile'[1][i] : i \in 1..Len(indexFile'[1])} :
               e.name = r.name =>
                  Emitted(EntryWalker(e), r.stored) = r.ended]_vars

\* a finished batch of two conversations, the first of two blocks, the
\* second of one block and started where the first ended
C17_Witness ==
    /\ pc = "idle"
    /\ indexFile # <<>>
    /\ Len(job.printed) = 2
    /\ job.printed[1].stored = 2
    /\ job.printed[2].stored = 1
    /\ IndexEntry(job.printed[2].name).coord = job.printed[1].ended

\* the walker does not emit the end coordinate before its last step; this
\* fails for walks that come back to a coordinate
EndNotEmittedBefore ==
    (pc = "idle" /\ indexFile # <<>>) =>
       \A r \in Ended :
       \A w \in {EntryWalker(IndexEntry(r.name))} :
          \A j \in 0..(r.stored - 1) : Emitted(w, j) # r.ended

(***************************************************************************)
(* The retrace of an append: a fresh walker at an index entry's (start,    *)
(* id) is stepped until the coordinate it emits equals the entry's end.    *)
(* The end of an entry is the coordinate its import ended at.              *)
(***************************************************************************)
\* a fresh walker is constructed for a conversation a finished batch stored
RetraceBegin ==
    /\ pc = "idle"
    /\ indexFile # <<>>
    /\ job.op = "store_all"
    /\ \E r \in Ended :
         LET w == EntryWalker(IndexEntry(r.name))
         IN  /\ nav' = <<[active_path |-> w]>>
             /\ job' = [job EXCEPT !.op = "retrace", !.key = r.name,
                                   !.start = IndexEntry(r.name).coord,
                                   !.current_coord = Emitted(w, 0),
                                   !.total_blocks = r.stored,
                                   !.steps = 0,
                                   !.target = r.ended]
    /\ pc' = "retrace"
    /\ UNCHANGED <<browser, cc, hashTab, walkers, hubCoord, files, lastCall, out, imported, attfiles,
                   indexFile>>

\* one round of "step until the emitted coordinate equals end"
RetraceStep ==
    /\ pc = "retrace"
    /\ IF job.current_coord = job.target
       THEN /\ pc' = "idle"
            /\ UNCHANGED <<browser, nav, job>>
       ELSE /\ pc' = "retrace"
            /\ nav' = <<[nav[1] EXCEPT !.active_path = step(@)]>>
            /\ job' = [job EXCEPT !.steps = @ + 1,
                                  !.current_coord = step_ret(nav[1].active_path)]
    /\ UNCHANGED <<browser, cc, hashTab, walkers, hubCoord, files, lastCall, out, imported, attfiles,
                   indexFile>>

NextRetrace ==
    \/ BatchBegin
    \/ BatchConv
    \/ BatchIter
    \/ BatchConvEnd
    \/ BatchEnd
    \/ RetraceBegin
    \/ RetraceStep

SpecRetrace == Init /\ [][NextRetrace]_vars

Retraced == pc = "idle" /\ job.op = "retrace"

\* the walker of the retraced conversation as its import left it
AtOriginalEnd == AfterSteps(EntryWalker(IndexEntry(job.key)), job.total_blocks)

\* C18 as stated: the retrace leaves the walker in exactly the state the
\* original placement ended in, for every walk
C18_Original ==
    Retraced =>
       /\ nav[1].active_path.coord_dec = AtOriginalEnd.coord_dec
       /\ nav[1].active_path.imag = AtOriginalEnd.imag

\* C18 amended: the retrace terminates within ceil(n/2) steps, at the first
\* emission (the start included) equal to the end, and leaves the walker on
\* the end coordinate; the walker's (coord_dec, imag) is the state the
\* original placement ended in when the walk emits the end coordinate for
\* the first time at its last step
C18_Retrace ==
    /\ pc = "retrace" =>
          /\ job.steps <= job.total_blocks
          /\ nav[1].active_path = AfterSteps(EntryWalker(IndexEntry(job.key)), job.steps)
          /\ \A j \in 0..(job.steps - 1) :
                Emitted(EntryWalker(IndexEntry(job.key)), j) # job.target
    /\ Retraced =>
          /\ get_coordinates(coord_conv(nav[1].active_path.coord_dec)) = job.target
          /\ nav[1].active_path.coord_dec = AtOriginalEnd.coord_dec
          /\ job.steps = job.total_blocks => nav[1].active_path = AtOriginalEnd

\* a retrace over the whole of a walk of at least two steps has ended
C18_Witness ==
    /\ Retraced
    /\ job.steps = job.total_blocks
    /\ job.steps >= 2

(***************************************************************************)
(* C22: the arithmetic of one step                                         *)
(***************************************************************************)
\* bit b of a non-negative integer
Bit(v, b) == (v \div (2 ^ b)) % 2

RECURSIVE XorBits(_, _, _)
\* the low ImagBits bits of a XOR b, bit by bit from position bit up; the
\* higher bits do not reach a value that is reduced modulo M
XorBits(a, b, bit) ==
    IF bit >= ImagBits THEN 0
    ELSE ((Bit(a, bit) + Bit(b, bit)) % 2) * (2 ^ bit) + XorBits(a, b, bit + 1)

\* digit i (from 0, least significant first) of a coordinate value
Digit(v, i) == (v \div (Base ^ i)) % Base

\* C(d0..d5) = 13*d0 + 17*d1 + 19*d2 + 23*d3 + 29*d4 + 31*d5
Checksum(v) ==
    13 * Digit(v, 0) + 17 * Digit(v, 1) + 19 * Digit(v, 2)
    + 23 * Digit(v, 3) + 29 * Digit(v, 4) + 31 * Digit(v, 5)

\* a multiple of SPACE_SIZE that is at least imag^2 for every imag
Lift == ((M * M) \div SPACE_SIZE + 1) * SPACE_SIZE

\* state q is state p after one step
OneStep(p, q) ==
    /\ q.coord_dec \in 0..(SPACE_SIZE - 1)
    /\ q.coord_dec = (p.coord_dec * p.coord_dec + p.X + Lift - p.imag * p.imag) % SPACE_SIZE
    /\ q.imag \in 0..(M - 1)
    /\ q.imag = (XorBits(XorBits(p.imag, Checksum(p.coord_dec), 0),
                         Checksum(q.coord_dec), 0) * A + 1) % M
    /\ q.X = p.X
    /\ q.key = p.key

\* C22: a walker's state changes only by step(), and one step takes
\* (coord_dec, imag, X) to coord_dec' = (coord_dec^2 - imag^2 + X) mod
\* SPACE_SIZE, in range also when imag^2 is the larger, and imag' =
\* ((imag XOR C(digits(coord_dec)) XOR C(digits(coord_dec'))) * A + 1) mod M,
\* in range; X and the key stay
C22_StepArithmetic ==
    [][\A w \in DOMAIN walkers :
          /\ w \in DOMAIN walkers'
          /\ \A p \in {walkers[w].hub.active_path} :
             \A q \in {walkers'[w].hub.active_path} :
                IF walkers'[w].k = walkers[w].k THEN q = p
                ELSE /\ walkers'[w].k = walkers[w].k + 1
                     /\ OneStep(p, q)]_vars

\* a step was taken from a state where imag^2 exceeds coord_dec^2 + X, and a
\* further one from a coordinate with several non-zero digits
C22_Witness ==
    \E w \in DOMAIN walkers :
        /\ walkers[w].k = 2
        /\ walkers[w].hub.start_coord = Zeros
        /\ walkers[w].hub.active_path.X = 0
        /\ walkers[w].hub.active_path.imag # 0

(***************************************************************************)
(* navigation_hub.py: single_step                                          *)
(***************************************************************************)
\* single_step(coord_str, imag, key, start_coord_str): both strings are
\* parsed (ValueError when one does not parse), X is regenerated from the
\* start, the real step is computed, and the call
\* coord_obj.baseSixtyConv(real_next) then raises AttributeError, Coordinate
\* having no method of that name; nothing is returned
single_step(coord_str, imag, key, start_coord_str) ==
    IF ~parse_ok(coord_str) \/ ~parse_ok(start_coord_str)
    THEN [raised |-> <<"ValueError">>, ret |-> <<>>]
    ELSE [raised |-> <<"AttributeError">>, ret |-> <<>>]

\* single_step called with the state of walker w and the start it was given
CallSingleStep(w) ==
    /\ w \in DOMAIN walkers
    /\ LET p == walkers[w].hub.active_path
       IN  lastCall' = [op |-> "single_step", w |-> w,
                        result |-> single_step(strCoord_conv(p.coord_dec), p.imag, p.key,
                                               walkers[w].start)]
    /\ UNCHANGED <<browser, cc, hashTab, walkers, hubCoord, files, pc, nav, job, out, imported,
                   attfiles, indexFile>>

NextSingle == WalkNew(1) \/ WalkStep(1) \/ CallSingleStep(1)

SpecSingle == Init /\ [][NextSingle]_vars

\* C25: for valid inputs single_step returns the coordinate a walker in
\* that state emits with its next step() and the imag it then holds
C25_SingleStep ==
    (lastCall.op = "single_step" /\ parse_ok(walkers[lastCall.w].start)) =>
       /\ lastCall.result.raised = <<>>
       /\ lastCall.result.ret = <<step_ret(walkers[lastCall.w].hub.active_path),
                                  step(walkers[lastCall.w].hub.active_path).imag>>

(***************************************************************************)
(* C23: two walks that meet on a coordinate.  At the program's sizes the   *)
(* square of imag exceeds SPACE_SIZE (2^64 against 60^6), so different     *)
(* imags can lead to the same next coordinate; the pair is therefore       *)
(* stepped with a register of PairBits bits, wide enough for that.         *)
(***************************************************************************)
PairBits == 5

PairM == 2 ^ PairBits

\* coordinates where the two walks meet
PairCoords == {0, 1, SPACE_SIZE - 1}

\* two walks with one X are on one coordinate with different imags
PairNew ==
    /\ lastCall.op = "none"
    /\ \E c \in PairCoords, X \in XSeeds, i1 \in 0..(PairM - 1), i2 \in 0..(PairM - 1) :
         /\ i1 # i2
         /\ lastCall' = [op |-> "pair", k |-> 0,
                         a |-> [coord_dec |-> c, key |-> "k1", imag |-> i1, X |-> X],
                         b |-> [coord_dec |-> c, key |-> "k2", imag |-> i2, X |-> X]]
    /\ UNCHANGED <<browser, cc, hashTab, walkers, hubCoord, files, pc, nav, job, out, imported,
                   attfiles, indexFile>>

\* both walks take their next step
PairStep ==
    /\ lastCall.op = "pair"
    /\ lastCall.k = 0
    /\ lastCall' = [lastCall EXCEPT !.k = 1, !.a = step_m(@, PairM), !.b = step_m(@, PairM)]
    /\ UNCHANGED <<browser, cc, hashTab, walkers, hubCoord, files, pc, nav, job, out, imported,
                   attfiles, indexFile>>

NextPair == PairNew \/ PairStep

SpecPair == Init /\ [][NextPair]_vars

\* C23: two walks with the same X on the same coordinate with different
\* imags are not in the same (coord_dec, imag) state after their next step
C23_PairDiverges ==
    (lastCall.op = "pair" /\ lastCall.k = 1) =>
       \/ lastCall.a.coord_dec # lastCall.b.coord_dec
       \/ lastCall.a.imag # lastCall.b.imag

\* the two walks stepped onto the same coordinate, so only imag tells them
\* apart
C23_Witness ==
    /\ lastCall.op = "pair"
    /\ lastCall.k = 1
    /\ lastCall.a.coord_dec = lastCall.b.coord_dec

(***************************************************************************)
(* C24: the order of a bucket                                              *)
(***************************************************************************)
\* C24: after every create_coordinate_block the blocks of each bucket, the
\* written one included, are in strictly ascending order of universe,
\* whatever the order in which differing or colliding universes arrived
C24_BucketAscending ==
    \A qk \in BucketKeys(files) :
       \A b \in {files[qk[1]].data[qk[2]]} :
          \A i \in 1..(Len(b) - 1) : b[i].universe < b[i + 1].universe

\* the last call was a create that put its block in front of a block that
\* was there before it (the one that was given a layer)
C24_Witness ==
    /\ lastCall.op = "create_coordinate_block"
    /\ \E qk \in BucketKeys(files) :
         \E b \in {files[qk[1]].data[qk[2]]} :
            /\ Len(b) = 2
            /\ DOMAIN b[1].layers = {}
            /\ DOMAIN b[2].layers # {}

(***************************************************************************)
(* C26: what a create_coordinate_block call changes                        *)
(***************************************************************************)
\* the coordinate keys the bucket files of fs hold
StoredKeys(fs) == UNION {DOMAIN fs[q].data : q \in DOMAIN fs}

\* C26: create_coordinate_block(c, b) adds exactly one block to the bucket
\* read at c and leaves every block that could be read before the call as
\* it was, at c and at every other coordinate, also when the bucket file of
\* c was unparsable before the call.  The calls are those of an import: a
\* step taken from inside its loop
C26_CreateFrame ==
    [][(pc = "store" /\ job.i < Len(job.messages)) =>
          \A c \in {job.current_coord} :
          \A pre \in {load_coordinate_data(files, c)} :
          \A post \in {load_coordinate_data(files', c)} :
             /\ Len(post) = Len(pre) + 1
             /\ \E i \in 1..Len(post) : Without(post, i) = pre
             /\ \A k \in (StoredKeys(files) \cup StoredKeys(files')) \ {c} :
                   load_coordinate_data(files', k) = load_coordinate_data(files, k)]_vars

(***************************************************************************)
(* C27: the attachment paths a restore prints                              *)
(***************************************************************************)
\* att_base of restore_conversation: dir_path/attachments/full_key, the key
\* as _paths returns it
att_base(coordinate) ==
    LET parts == split(coordinate)
    IN  [dir |-> <<parts[6], parts[5], parts[4], parts[3]>>, key |-> full_key(coordinate)]

\* the lines restore_conversation prints under "Attachments:" for a block
\* found at the coordinate
print_attachments(coordinate, atts) ==
    [i \in 1..Len(atts) |-> [dir |-> att_base(coordinate), fname |-> atts[i]]]

\* the attachments part of the loop body of restore_conversation, for a
\* stored block with attachments that the walk has found
RestorePrintAtt ==
    /\ \E c \in DMCoords :
         \E i \in 1..Len(load_coordinate_data(files, c)) :
            LET block == load_coordinate_data(files, c)[i]
            IN  /\ block.attachments # <<>>
                /\ lastCall' = [op |-> "restore_attachments", coordinate |-> c,
                                attachments |-> block.attachments,
                                printed |-> print_attachments(c, block.attachments)]
    /\ UNCHANGED <<browser, cc, hashTab, walkers, hubCoord, files, pc, nav, job, out, imported,
                   attfiles, indexFile>>

NextAttRestore == DMCreateAtt \/ RestorePrintAtt

SpecAttRestore == Init /\ [][NextAttRestore]_vars

\* C27: the directory a restore reports for the attachments of a block is
\* the directory create_coordinate_block copied them into, the one named by
\* the coordinate key with dashes for spaces
C27_AttachmentDir ==
    lastCall.op = "restore_attachments" =>
       \A i \in 1..Len(lastCall.printed) :
          lastCall.printed[i].dir = att_dir(lastCall.coordinate)

(***************************************************************************)
(* C29: the step limit of a restore                                        *)
(***************************************************************************)
\* C29: a restore given a numeric step limit n, 0 included, emits at most n
\* blocks; only a blank limit means "until empty"
C29_LimitBounds ==
    (job.op = "restore" /\ job.max_steps # <<>>) => Len(out) <= job.max_steps[1]

(***************************************************************************)
(* C21: the length of a restore                                            *)
(***************************************************************************)
\* the coordinates the restore without a step limit has loaded: one for
\* each block emitted and, once it is over, the one where it found none
Visited == job.steps + (IF pc = "idle" THEN 1 ELSE 0)

\* C21: a restore without a step limit of a conversation of n messages
\* visits at most ceil(n/2) + 1 coordinates and ends, whatever the walk and
\* whatever else the store holds
C21_RestoreLinear ==
    (job.op = "restore" /\ job.max_steps = <<>>) =>
       Visited <= (Len(job.messages) + 1) \div 2 + 1

(***************************************************************************)
(* C28: restoring from the written index.  After a batch the conversations *)
(* of imported are those of the index: (name, coord) is (key, start).      *)
(***************************************************************************)
NextBatchRestore ==
    \/ BatchBegin
    \/ BatchConv
    \/ BatchIter
    \/ BatchConvEnd
    \/ BatchEnd
    \/ RestoreBegin
    \/ RestoreIter

SpecBatchRestore == Init /\ [][NextBatchRestore]_vars

\* the restore runs from an entry of the written index
FromIndex ==
    /\ indexFile # <<>>
    /\ \E i \in 1..Len(indexFile[1]) :
          indexFile[1][i] = [name |-> job.key, coord |-> job.start]

\* C28: every entry (name, coord) of the written index names a coordinate
\* that holds a block of that conversation, and a restore with (coord,
\* name) emits a block of it first; also for a directory without a JSON
\* file or with an empty message list
C28_IndexRestorable ==
    (job.op = "restore" /\ pc = "idle" /\ FromIndex) =>
       /\ \E i \in 1..Len(load_coordinate_data(files, full_key(strCoord_conv(
                 baseTenConv(parse_coordinate(job.start)))))) :
             load_coordinate_data(files, full_key(strCoord_conv(
                 baseTenConv(parse_coordinate(job.start)))))[i].block.user[1] = job.key
       /\ out # <<>>
       /\ out[1].user[1] = job.key

(***************************************************************************)
(* navigation_hub.py: ConversationNavigator                                *)
(***************************************************************************)
MaxGoto == 5

\* the arguments of direct goto(i) calls
GotoArgs == (0 - MaxGoto)..MaxGoto

UpperChars == <<"G", "O", "T", "N", "E", "X", "P", "R", "V">>

LowerChars == <<"g", "o", "t", "n", "e", "x", "p", "r", "v">>

\* str.lower(), over the letters the inputs use
lower(s) ==
    [i \in 1..Len(s) |->
       IF \E j \in 1..Len(UpperChars) : UpperChars[j] = s[i]
       THEN LowerChars[CHOOSE j \in 1..Len(UpperChars) : UpperChars[j] = s[i]]
       ELSE s[i]]

RECURSIVE lstrip(_)
lstrip(s) == IF s # <<>> /\ Head(s) \in Whitespace THEN lstrip(Tail(s)) ELSE s

RECURSIVE rstrip(_)
rstrip(s) == IF s # <<>> /\ s[Len(s)] \in Whitespace
             THEN rstrip(SubSeq(s, 1, Len(s) - 1)) ELSE s

\* str.strip()
strip(s) == rstrip(lstrip(s))

\* str.startswith()
startswith(s, prefix) == Len(s) >= Len(prefix) /\ SubSeq(s, 1, Len(prefix)) = prefix

\* what the user can type at the Browse prompt
CmdInputs ==
    { <<"n">>, <<"n", "e", "x", "t">>, <<"p">>, <<"p", "r", "e", "v">>,
      <<" ", "N", "e", "x", "t", " ">>,
      <<"g", "o", "t", "o">>,
      <<"g", "o", "t", "o", "2">>,
      <<"g", "o", "t", "o", " ", "x">>,
      <<"g", "o", "t", "o", " ", "-", "1">>,
      <<"g", "o", "t", "o", " ", "1", " ", "2">>,
      <<"G", "O", "T", "O", " ", " ", "2">>,
      <<"l", "i", "s", "t">>, <<"c", "o", "u", "n", "t">>, <<"e", "x", "i", "t">>,
      <<>>, <<"x">> }
    \cup { <<"g", "o", "t", "o", " ">> \o str(n) : n \in 0..MaxGoto }

\* ConversationNavigator.next
next(self) ==
    IF self.idx + 1 < Len(self.blocks)
    THEN [self EXCEPT !.idx = @ + 1, !.call = <<[fn |-> "next"]>>]
    ELSE [self EXCEPT !.call = <<[fn |-> "next"]>>]

\* ConversationNavigator.prev
prev(self) ==
    IF self.idx > 0
    THEN [self EXCEPT !.idx = @ - 1, !.call = <<[fn |-> "prev"]>>]
    ELSE [self EXCEPT !.call = <<[fn |-> "prev"]>>]

\* mutant: the upper test of goto admits len(blocks)
goto_upto(self, i) ==
    IF 0 <= i /\ i <= Len(self.blocks)
    THEN [self EXCEPT !.idx = i, !.call = <<[fn |-> "goto", arg |-> i]>>]
    ELSE [self EXCEPT !.call = <<[fn |-> "goto", arg |-> i]>>]

\* ConversationNavigator.goto
goto(self, i) ==
    IF 0 <= i /\ i < Len(self.blocks)
    THEN [self EXCEPT !.idx = i, !.call = <<[fn |-> "goto", arg |-> i]>>]
    ELSE [self EXCEPT !.call = <<[fn |-> "goto", arg |-> i]>>]

\* one round of the command loop of interactive() on the typed line; the
\* commands that only print leave the navigator as it is
command(self, line) ==
    LET cmd == lower(strip(line))
        parts == split(cmd)
    IN  IF cmd \in {<<"n">>, <<"n", "e", "x", "t">>} THEN next(self)
        ELSE IF cmd \in {<<"p">>, <<"p", "r", "e", "v">>} THEN prev(self)
        ELSE IF startswith(cmd, <<"g", "o", "t", "o">>)
        THEN IF Len(parts) = 2 /\ isdigit(parts[2])
             THEN goto(self, int(parts[2]) - 1)
             ELSE [self EXCEPT !.call = <<>>]
        ELSE [self EXCEPT !.call = <<>>]

\* the lines that end the command loop
IsExit(line) ==
    lower(strip(line)) \in {<<"e", "x", "i", "t">>, <<"q", "u", "i", "t">>}

\* ConversationNavigator.__init__ up to the loop of _preload, for a start
\* and key an import used
BrowseBegin ==
    /\ pc = "idle"
    /\ \E conv \in imported :
         LET hub == NavigationHub(conv.start)
             dec == baseTenConv(hub.start_coord)
         IN  /\ \E imag0 \in HashChoices(hashTab, ImagInput(dec, conv.key), ImagSeeds),
                   X0 \in HashChoices(hashTab, XInput(dec, conv.key), XSeeds) :
                  /\ hashTab' = HashRecord(HashRecord(hashTab, ImagInput(dec, conv.key), imag0),
                                           XInput(dec, conv.key), X0)
                  /\ nav' = <<default(hub, conv.key, imag0, X0)>>
             /\ job' = [NoJob EXCEPT !.op = "browse", !.start = conv.start, !.key = conv.key,
                                     !.current_coord = strCoord_conv(dec)]
    /\ browser' = NoBrowser
    /\ pc' = "preload"
    /\ UNCHANGED <<cc, walkers, hubCoord, files, lastCall, out, imported, attfiles, indexFile>>

\* one iteration of the "while True" of _preload; the break ends __init__
PreloadIter ==
    /\ pc = "preload"
    /\ job.steps < MaxRestore
    /\ ~load_raises(files, json_path(job.current_coord))
    /\ LET all_blocks == load_coordinate_data(files, job.current_coord)
           path == nav[1].active_path
           b == FirstWithUniverse(all_blocks, path.imag)
       IN  IF b = 0
           THEN /\ pc' = "constructed"
                /\ browser' = [browser EXCEPT !.idx = 0]
                /\ UNCHANGED <<nav, job>>
           ELSE /\ pc' = "preload"
                /\ browser' = [browser EXCEPT !.blocks =
                                  Append(@, [coord |-> job.current_coord, imag |-> path.imag,
                                             blk |-> all_blocks[b]])]
                /\ nav' = <<[nav[1] EXCEPT !.active_path = step(path)]>>
                /\ job' = [job EXCEPT !.steps = @ + 1, !.current_coord = step_ret(path)]
    /\ UNCHANGED <<cc, hashTab, walkers, hubCoord, files, lastCall, out, imported, attfiles,
                   indexFile>>

\* interactive() up to its command loop
Interactive ==
    /\ pc = "constructed"
    /\ IF browser.blocks = <<>>
       THEN /\ pc' = "idle"
            /\ browser' = browser
       ELSE /\ pc' = "browse"
            /\ browser' = [browser EXCEPT !.idx = 0]
    /\ UNCHANGED <<cc, hashTab, walkers, hubCoord, files, lastCall, nav, job, out, imported,
                   attfiles, indexFile>>

\* one round of the command loop
BrowseInput ==
    /\ pc = "browse"
    /\ \E line \in CmdInputs :
         IF IsExit(line)
         THEN /\ pc' = "idle"
              /\ browser' = [browser EXCEPT !.call = <<>>]
         ELSE /\ pc' = "browse"
              /\ browser' = command(browser, line)
    /\ UNCHANGED <<cc, hashTab, walkers, hubCoord, files, lastCall, nav, job, out, imported,
                   attfiles, indexFile>>

\* a caller of the class invokes next(), prev() or goto(i) itself
BrowseCall ==
    /\ pc = "browse"
    /\ \/ browser' = next(browser)
       \/ browser' = prev(browser)
       \/ \E i \in GotoArgs : browser' = goto(browser, i)
    /\ UNCHANGED <<cc, hashTab, walkers, hubCoord, files, lastCall, pc, nav, job, out, imported,
                   attfiles, indexFile>>

NextBrowse ==
    \/ BatchBegin
    \/ BatchConv
    \/ BatchIter
    \/ BatchConvEnd
    \/ BatchEnd
    \/ BrowseBegin
    \/ PreloadIter
    \/ Interactive
    \/ BrowseInput
    \/ BrowseCall

SpecBrowse == Init /\ [][NextBrowse]_vars

\* the index a command asks for, from the cursor it finds
Wanted(self, call) ==
    IF call.fn = "next" THEN self.idx + 1
    ELSE IF call.fn = "prev" THEN self.idx - 1
    ELSE call.arg

\* C30: with at least one preloaded block the cursor of a browsing
\* navigator stays within 0 <= idx < len(blocks) after every next, prev
\* and goto(i); a command moves the cursor to the index it asks for when
\* that index is in the range and changes nothing otherwise; browsing
\* never modifies the preloaded blocks
C30_CursorInRange ==
    [][ /\ pc' = "browse" =>
              /\ browser'.blocks # <<>>
              /\ browser'.idx \in 0..(Len(browser'.blocks) - 1)
        /\ (pc = "browse" /\ pc' = "browse") =>
              /\ browser'.blocks = browser.blocks
              /\ IF browser'.call = <<>>
                 THEN browser'.idx = browser.idx
                 ELSE \A want \in {Wanted(browser, browser'.call[1])} :
                         browser'.idx = IF want \in 0..(Len(browser.blocks) - 1)
                                        THEN want ELSE browser.idx
      ]_vars

\* a goto one past the last block has been refused with the cursor moved
\* off the first of several blocks
C30_Witness ==
    /\ pc = "browse"
    /\ Len(browser.blocks) >= 2
    /\ browser.idx = 1
    /\ browser.call = <<[fn |-> "goto", arg |-> Len(browser.blocks)]>>
====
